---- MODULE Spec2Model ----
(***************************************************************************)
(* Model of src/helpers.py: five notebook helpers that build an R script,  *)
(* run it through the rpy2 handle `r`, capture the plot as a PNG and       *)
(* display it.  The shared state is the R interpreter behind the handle    *)
(* (its global environment and its list of open graphics devices) and the  *)
(* temporary directory on disk.  Every Python statement that touches that  *)
(* shared state is one action; one r(...) evaluation is atomic (rpy2       *)
(* evaluates under its interpreter lock).  Values carry the serial numbers *)
(* of the calls whose arguments they were computed from (src), and the     *)
(* call that assigned or wrote them (by, wr).                              *)
(***************************************************************************)
EXTENDS Integers, Sequences, FiniteSets, TLC

\* ---------------------------------------------------------------- bounds
MaxCalls == 2        \* calls made one after the other on the handle
MaxCells == 2        \* longest market_ids list

\* R's graphics engine: device slots, slot 0 being the null device, so at
\* most R_MaxDevices - 1 devices can be open; png() fails beyond that.
R_MaxDevices == 64

\* The handle is the caller's: it comes with the devices the caller, or
\* earlier failed calls of these helpers, left open.
PriorOpen == {0, R_MaxDevices - MaxCalls}

Procs == {1, 2}      \* Python threads that may hold the handle
SeqProcs == {1}      \* "one call at a time, from one thread"

MarketIDs == {1, 2}                   \* IDs in the caller's dataset
InputIDs == MarketIDs \cup {3}        \* 3 is in no row of the dataset
Lookbacks == {1, 2}

\* market_ids: the cells of a multi-cell test are different markets
IdLists ==
    UNION {{l \in [1..n -> InputIDs] :
              \A i, j \in 1..n : l[i] = l[j] => i = j} : n \in 1..MaxCells}

GlobalNames == {"create_plot", "market_id", "market_row", "treatment_locations",
                "treatment_duration", "lookback_window", "power_data",
                "test_locs", "Power"}

\* plot_R_code is R text evaluated inside create_plot, whose enclosure is
\* the global environment: it can name any global, those the helpers leave
\* behind included.  One name stands for each script that binds them:
\* market_id (bound even when the deep-dive script fails), power_data,
\* test_locs and Power.
UserReads == {{}, {"market_id"}, {"power_data"}, {"test_locs"}, {"Power"}}

\* plot_R_code as the caller may pass it.  "ok": evaluates to an object that
\* print() renders; "parse": not R; "eval": raises when evaluated; "print":
\* evaluates, and print(p) raises; "base": base graphics, which draw while
\* being evaluated and evaluate to NULL.
UserCodes ==
    {[kind |-> "ok", reads |-> r] : r \in UserReads} \cup
    {[kind |-> k, reads |-> {}] : k \in {"parse", "eval", "print", "base"}}

\* the fragment make_market_deep_dive_plot hands to make_geoplot
PowerCode == [kind |-> "ok", reads |-> {"power_data"}]

NoCode == [kind |-> "none", reads |-> {}]
NoImg == [st |-> "none", plot |-> <<>>, src |-> {}]
EmptyFile == [st |-> "empty", plot |-> <<>>, src |-> {}]
Unbound == [val |-> <<>>, by |-> 0, src |-> {}]
NoCall == [fn |-> "none", inline |-> TRUE, code |-> NoCode, id |-> 0,
           ids |-> <<>>, lookback |-> 0]
NoHist == [err |-> "none", late |-> FALSE, execs |-> <<>>, reads |-> {},
           stale |-> {}, overlap |-> FALSE, shown |-> <<>>]

VARIABLES
    pc,        \* pc[t]: the statement thread t is about to run
    call,      \* call[t]: the arguments of the helper t is running
    cid,       \* cid[t]: serial number of that call (0: none yet)
    gp,        \* gp[t]: the arguments of the make_geoplot frame, if any
    fun,       \* fun[t]: the R function robjects.r['create_plot'] returned
    tmpfile,   \* tmpfile[t]: tmpfile_name (0: not assigned)
    img,       \* img[t]: the PIL image / the raw bytes fetched from R
    h,         \* h[t]: what the call did so far (observations only)
    genv,      \* R global environment: name -> value, assigning call
    devs,      \* R graphics devices, in slot order
    cur,       \* index in devs of the current device (0: none open)
    disk,      \* temporary directory: file name -> creator, writer, data
    nfiles,    \* temporary names handed out so far
    ncalls,    \* calls begun so far
    devs0,     \* devices open in the handle before the first call
    allOk      \* no call has failed so far

vars == <<pc, call, cid, gp, fun, tmpfile, img, h, genv, devs, cur, disk,
          nfiles, ncalls, devs0, allOk>>

\* ------------------------------------------------------ files and devices

\* R's tempfile(): a name not in use; the file itself is not created.
R_tempfile(n) == n + 1

\* a temporary name that is reused from call to call
NamedTemporaryFileFixed(n) == 1

\* tempfile.NamedTemporaryFile(suffix=".png", delete=False): a new name.
NamedTemporaryFile(n) == n + 1

\* A file is (re)written by call c: an existing file keeps its creator.
WriteFile(d, f, c, data) ==
    IF f \in DOMAIN d
    THEN [d EXCEPT ![f] = [by |-> d[f].by, wr |-> c, data |-> data]]
    ELSE [x \in DOMAIN d \cup {f} |->
            IF x = f THEN [by |-> c, wr |-> c, data |-> data] ELSE d[x]]

Unlink(d, f) == [x \in DOMAIN d \ {f} |-> d[x]]

TooManyDevices(g) == Len(g.devs) >= R_MaxDevices - 1

\* png(f): a new device on f takes the next slot and becomes the current
\* one; an existing file is truncated.  g is the device list, the current
\* device and the disk.
Png(g, f, c) ==
    [devs |-> Append(g.devs, [file |-> f, by |-> c, page |-> NoImg]),
     cur |-> Len(g.devs) + 1,
     disk |-> IF f \in DOMAIN g.disk THEN WriteFile(g.disk, f, c, EmptyFile)
              ELSE g.disk]

\* drawing with no device open opens the default device (not on a
\* temporary file)
OpenDefault(g, c) ==
    IF g.cur # 0 THEN g
    ELSE [g EXCEPT !.devs = Append(g.devs, [file |-> 0, by |-> c, page |-> NoImg]),
                   !.cur = Len(g.devs) + 1]

\* print(p) / plot(...): draws on the current device; NoImg: nothing drawn.
Draw(g, image) ==
    IF image = NoImg THEN g ELSE [g EXCEPT !.devs[g.cur].page = image]

Without(ds, i) == [j \in 1..(Len(ds) - 1) |-> IF j < i THEN ds[j] ELSE ds[j + 1]]

\* a dev.off() that is not reached before the file is read
DevOffLate(g) == g

\* a dev.off() that writes the file and leaves the device in the list
DevOffLeak(g) ==
    LET d == g.devs[g.cur] IN
    [g EXCEPT !.disk = IF d.page = NoImg THEN g.disk
                       ELSE WriteFile(g.disk, d.file, d.by, d.page)]

\* dev.off(): closes the current device, which writes its page, if one was
\* drawn, to its file; the next device in slot order, wrapping around,
\* becomes the current one.
DevOff(g) ==
    LET d == g.devs[g.cur]
        rest == Without(g.devs, g.cur)
    IN  [devs |-> rest,
         cur |-> IF rest = <<>> THEN 0
                 ELSE IF g.cur <= Len(rest) THEN g.cur ELSE 1,
         disk |-> IF d.page = NoImg THEN g.disk
                  ELSE WriteFile(g.disk, d.file, d.by, d.page)]

\* An R error between png() and dev.off(): the device stays open; whether
\* its file already exists depends on the png backend.
Abandon(g, exists) ==
    LET d == g.devs[g.cur] IN
    [g EXCEPT !.disk = IF exists /\ d.file \notin DOMAIN g.disk
                       THEN WriteFile(g.disk, d.file, d.by, EmptyFile)
                       ELSE g.disk]

OpenOn(ds, f) == \E i \in 1..Len(ds) : ds[i].file = f

\* what reading file f observes
ReadOf(g, f) ==
    [file |-> f, open |-> OpenOn(g.devs, f),
     st |-> IF f \in DOMAIN g.disk THEN g.disk[f].data.st ELSE "none",
     by |-> IF f \in DOMAIN g.disk THEN g.disk[f].by ELSE 0,
     wr |-> IF f \in DOMAIN g.disk THEN g.disk[f].wr ELSE 0]

\* ------------------------------------------------------- control transfer

\* an error that is swallowed: the call carries on with its next statement
AfterSwallowed(ok, next) == next

\* An exception raised by a statement is not caught anywhere: the call ends.
After(ok, next) == IF ok THEN next ELSE "failed"

ErrOf(ok, kind) == IF ok THEN "none" ELSE kind

Active(t) == pc[t] \notin {"idle", "done", "failed"}

Step(t, ok, next, errKind, script, reads, stale) ==
    /\ pc' = [pc EXCEPT ![t] = After(ok, next)]
    /\ h' = [h EXCEPT ![t] =
               [@ EXCEPT !.err = IF @ = "none" THEN ErrOf(ok, errKind) ELSE @,
                         !.late = @ \/ h[t].err # "none",
                         !.execs = @ \o script,
                         !.reads = @ \cup reads,
                         !.stale = @ \cup stale]]
    /\ allOk' = (allOk /\ ok)

\* ------------------------------------------------------------------ Init

Init ==
    /\ pc = [t \in Procs |-> "idle"]
    /\ call = [t \in Procs |-> NoCall]
    /\ cid = [t \in Procs |-> 0]
    /\ gp = [t \in Procs |-> [code |-> NoCode, inline |-> TRUE]]
    /\ fun = [t \in Procs |-> Unbound]
    /\ tmpfile = [t \in Procs |-> 0]
    /\ img = [t \in Procs |-> NoImg]
    /\ h = [t \in Procs |-> NoHist]
    /\ genv = [n \in GlobalNames |-> Unbound]
    /\ devs0 \in PriorOpen
    /\ devs = [i \in 1..devs0 |-> [file |-> 0, by |-> 0, page |-> NoImg]]
    /\ cur = devs0
    /\ disk = <<>>
    /\ nfiles = 0
    /\ ncalls = 0
    /\ allOk = TRUE

\* --------------------------------------------------------------- inputs

GeoplotCalls ==
    {[fn |-> "make_geoplot", inline |-> b, code |-> c, id |-> 0, ids |-> <<>>,
      lookback |-> 0] : b \in BOOLEAN, c \in UserCodes}

MarketPlotCalls ==
    {[fn |-> "make_market_plot", inline |-> b, code |-> NoCode, id |-> m,
      ids |-> <<>>, lookback |-> 0] : b \in BOOLEAN, m \in InputIDs}

DeepDiveCalls ==
    {[fn |-> "make_market_deep_dive_plot", inline |-> b, code |-> NoCode,
      id |-> m, ids |-> <<>>, lookback |-> w] :
        b \in BOOLEAN, m \in InputIDs, w \in Lookbacks}

MulticellCalls ==
    {[fn |-> "make_market_plot_multicell", inline |-> b, code |-> NoCode,
      id |-> 0, ids |-> l, lookback |-> 0] : b \in BOOLEAN, l \in IdLists}

DeepDiveMulticellCalls ==
    {[fn |-> "make_market_deep_dive_plot_multicell", inline |-> b,
      code |-> NoCode, id |-> 0, ids |-> l, lookback |-> w] :
        b \in BOOLEAN, l \in IdLists, w \in Lookbacks}

Calls == GeoplotCalls \cup MarketPlotCalls \cup DeepDiveCalls
           \cup MulticellCalls \cup DeepDiveMulticellCalls

\* the first statement of each helper that touches the handle or the disk
Entry(fn) ==
    CASE fn = "make_geoplot" -> "define"
      [] fn = "make_market_plot" -> "tmp"
      [] fn = "make_market_deep_dive_plot" -> "power_data"
      [] fn = "make_market_plot_multicell" -> "test_locs"
      [] fn = "make_market_deep_dive_plot_multicell" -> "test_locs"

\* ------------------------------------------------------------ R scripts

Bind(env, name, val, c, src) ==
    [env EXCEPT ![name] = [val |-> val, by |-> c, src |-> src]]

\* the names among those read whose value another call assigned
StaleOf(env, names, k) == {x \in names : env[x].by \notin {0, k}}

\* enumerate(market_ids): pairs (i, n), i counted from 0
Enumerate(ids) == [j \in 1..Len(ids) |-> <<j - 1, ids[j]>>]

\* entries named from the 0-based index: cell_0, cell_1, ...
MarketLocsFromZero(ids) ==
    [j \in 1..Len(ids) |->
        [name |-> <<"cell_", Enumerate(ids)[j][1]>>,
         value |-> Enumerate(ids)[j][2]]]

\* ", ".join("cell_{} = {}".format(i+1, n) ...) as R reads it inside
\* list(...): one entry per pair, named cell_<i+1>, with value n
MarketLocs(ids) ==
    [j \in 1..Len(ids) |->
        [name |-> <<"cell_", Enumerate(ids)[j][1] + 1>>,
         value |-> Enumerate(ids)[j][2]]]

AllExist(locs) == \A j \in 1..Len(locs) : locs[j].value \in MarketIDs

\* the body of the function cp, a create_plot, run by call c: the globals
\* its code names are read when it runs.  wrote: on an error after png(),
\* whether the device's file is already on disk.
CreatePlot(cp, env, g0, n, c, wrote) ==
    LET code == cp.val
        evalOK == /\ code.kind \in {"ok", "print", "base"}
                  /\ \A x \in code.reads : env[x].by # 0
        image == [st |-> "png",
                  plot |-> <<"p", [x \in code.reads |-> env[x].val]>>,
                  src |-> cp.src \cup UNION {env[x].src : x \in code.reads}]
        stale == IF evalOK THEN StaleOf(env, code.reads, c) ELSE {}
        \* p <- plot_R_code: base graphics draw here, and p is NULL
        gE == IF code.kind = "base" THEN Draw(OpenDefault(g0, c), image) ELSE g0
        p == IF code.kind = "base" THEN NoImg ELSE image
        A == R_tempfile(n)
        g1 == Png(gE, A, c)
        g2 == DevOff(Draw(g1, p))
        B == R_tempfile(A)
        g3 == DevOff(Draw(Png(g2, B, c), p))
        rd == ReadOf(g3, B)
        none == [ok |-> FALSE, g |-> g0, n |-> n, raw |-> NoImg, reads |-> {},
                 stale |-> stale]
    IN  IF ~evalOK THEN none
        ELSE IF TooManyDevices(gE) THEN [none EXCEPT !.g = gE]
        ELSE IF code.kind = "print"
        THEN [none EXCEPT !.g = Abandon(g1, wrote), !.n = A]
        ELSE IF TooManyDevices(g2)
        THEN [none EXCEPT !.g = g2, !.n = A]
        ELSE IF B \notin DOMAIN g3.disk
        THEN [none EXCEPT !.g = g3, !.n = B]
        ELSE [ok |-> TRUE, g |-> [g3 EXCEPT !.disk = Unlink(g3.disk, B)],
              n |-> B, raw |-> g3.disk[B].data, reads |-> {rd},
              stale |-> stale]

\* ----------------------------------------------------------------- calls

\* "done": the helper returned None; "failed": its exception reached the
\* notebook user.  Either way the thread is free to make its next call.
BeginCall(t, c) ==
    /\ ~Active(t)
    /\ ncalls' = ncalls + 1
    /\ cid' = [cid EXCEPT ![t] = ncalls + 1]
    /\ call' = [call EXCEPT ![t] = c]
    /\ gp' = [gp EXCEPT ![t] = [code |-> c.code, inline |-> c.inline]]
    /\ fun' = [fun EXCEPT ![t] = Unbound]
    /\ tmpfile' = [tmpfile EXCEPT ![t] = 0]
    /\ img' = [img EXCEPT ![t] = NoImg]
    /\ pc' = [pc EXCEPT ![t] = Entry(c.fn)]
    /\ h' = [u \in Procs |->
               IF u = t
               THEN [NoHist EXCEPT !.overlap = \E v \in Procs \ {t} : Active(v)]
               ELSE [h[u] EXCEPT !.overlap = @ \/ Active(u)]]
    /\ UNCHANGED <<genv, devs, cur, disk, nfiles, devs0, allOk>>

\* one call at a time: the next call begins when no call is running
Begin(t) ==
    /\ ncalls < MaxCalls
    /\ \A u \in Procs : ~Active(u)
    /\ \E c \in Calls : BeginCall(t, c)

\* r(""" create_plot <- function() { p <- plot_R_code ... } """)
\* a definition that does not replace the create_plot already bound
DefineScriptKept(env, code, k) ==
    IF code.kind = "parse" THEN [ok |-> FALSE, env |-> env]
    ELSE IF env["create_plot"].by # 0 THEN [ok |-> TRUE, env |-> env]
    ELSE [ok |-> TRUE, env |-> Bind(env, "create_plot", code, k, {k})]

DefineScript(env, code, k) ==
    IF code.kind = "parse" THEN [ok |-> FALSE, env |-> env]
    ELSE [ok |-> TRUE, env |-> Bind(env, "create_plot", code, k, {k})]

Define(t) ==
    /\ pc[t] = "define"
    /\ LET res == DefineScript(genv, gp[t].code, cid[t]) IN
        /\ genv' = res.env
        /\ Step(t, res.ok, "lookup", "R", <<"define">>, {}, {})
    /\ UNCHANGED <<call, cid, gp, fun, tmpfile, img, devs, cur, disk, nfiles,
                   ncalls, devs0>>

\* robjects.r['create_plot']: the function bound to the name right now
Lookup(t) ==
    /\ pc[t] = "lookup"
    /\ fun' = [fun EXCEPT ![t] = genv["create_plot"]]
    /\ Step(t, genv["create_plot"].by # 0, "create_plot", "R", <<>>, {},
            StaleOf(genv, {"create_plot"}, cid[t]))
    /\ UNCHANGED <<call, cid, gp, tmpfile, img, genv, devs, cur, disk, nfiles,
                   ncalls, devs0>>

\* raw_vector = (the function looked up)()
CallCreatePlot(t) ==
    /\ pc[t] = "create_plot"
    /\ \E wrote \in BOOLEAN :
        LET res == CreatePlot(fun[t], genv,
                              [devs |-> devs, cur |-> cur, disk |-> disk],
                              nfiles, cid[t], wrote)
        IN  /\ devs' = res.g.devs
            /\ cur' = res.g.cur
            /\ disk' = res.g.disk
            /\ nfiles' = res.n
            /\ img' = [img EXCEPT ![t] = res.raw]
            /\ Step(t, res.ok, "open", "R", <<"create_plot">>, res.reads, res.stale)
    /\ UNCHANGED <<call, cid, gp, fun, tmpfile, genv, ncalls, devs0>>

\* img_data = bytes(raw_vector); Image.open(BytesIO(img_data))   (make_geoplot)
\* img = Image.open(tmpfile_name)                                (the others)
OpenImage(t) ==
    /\ pc[t] = "open"
    /\ LET fromFile == tmpfile[t] # 0
           data == IF ~fromFile THEN img[t]
                   ELSE IF tmpfile[t] \in DOMAIN disk THEN disk[tmpfile[t]].data
                   ELSE NoImg
           ok == data.st = "png"
       IN /\ img' = [img EXCEPT ![t] = data]
          /\ Step(t, ok, "show", "decode", <<>>,
                  IF fromFile
                  THEN {ReadOf([devs |-> devs, cur |-> cur, disk |-> disk],
                               tmpfile[t])}
                  ELSE {}, {})
    /\ UNCHANGED <<call, cid, gp, fun, tmpfile, genv, devs, cur, disk, nfiles,
                   ncalls, devs0>>

\* with tempfile.NamedTemporaryFile(suffix=".png", delete=False) as tmpfile:
\*     tmpfile_name = tmpfile.name
MakeTmp(t) ==
    /\ pc[t] = "tmp"
    /\ LET name == NamedTemporaryFile(nfiles) IN
        /\ nfiles' = name
        /\ disk' = WriteFile(disk, name, cid[t], EmptyFile)
        /\ tmpfile' = [tmpfile EXCEPT ![t] = name]
    /\ Step(t, TRUE, "plot", "os", <<>>, {}, {})
    /\ UNCHANGED <<call, cid, gp, fun, img, genv, devs, cur, ncalls, devs0>>

\* the plot(...) statement between png() and dev.off() of each helper
PlotCommand(c, env, k) ==
    CASE c.fn = "make_market_plot" ->
            [ok |-> c.id \in MarketIDs, stale |-> {},
             image |-> [st |-> "png", plot |-> <<"MarketSelections", c.id>>,
                        src |-> {k}]]
      [] c.fn = "make_market_plot_multicell" ->
            [ok |-> env["test_locs"].by # 0 /\ AllExist(env["test_locs"].val),
             stale |-> StaleOf(env, {"test_locs"}, k),
             image |-> [st |-> "png",
                        plot |-> <<"Markets", env["test_locs"].val>>,
                        src |-> env["test_locs"].src]]
      [] c.fn = "make_market_deep_dive_plot_multicell" ->
            [ok |-> env["Power"].by # 0,
             stale |-> StaleOf(env, {"Power"}, k),
             image |-> [st |-> "png", plot |-> <<"Power", env["Power"].val>>,
                        src |-> env["Power"].src]]

\* r(f""" png(filename="{tmpfile_name}", ...); plot(...); dev.off() """)
PlotScript(c, env, g0, f, k) ==
    LET cmd == PlotCommand(c, env, k)
        g1 == Png(g0, f, k)
    IN  IF TooManyDevices(g0) THEN [ok |-> FALSE, g |-> g0, stale |-> {}]
        ELSE IF ~cmd.ok
        THEN [ok |-> FALSE, g |-> Abandon(g1, TRUE), stale |-> cmd.stale]
        ELSE [ok |-> TRUE, g |-> DevOff(Draw(g1, cmd.image)), stale |-> cmd.stale]

Plot(t) ==
    /\ pc[t] = "plot"
    /\ LET res == PlotScript(call[t], genv,
                             [devs |-> devs, cur |-> cur, disk |-> disk],
                             tmpfile[t], cid[t])
       IN /\ devs' = res.g.devs
          /\ cur' = res.g.cur
          /\ disk' = res.g.disk
          /\ Step(t, res.ok, "open", "R", <<"plot">>, {}, res.stale)
    /\ UNCHANGED <<call, cid, gp, fun, tmpfile, img, genv, nfiles, ncalls, devs0>>

\* r(f""" market_id = ...; market_row <- ...; ...; power_data <- GeoLiftPower(...) """)
\* the statements run in order and the first error ends the script
PowerDataScript(env, id, w, k) ==
    LET e1 == Bind(env, "market_id", <<id>>, k, {k})
        e2 == Bind(e1, "market_row",
                   IF id \in MarketIDs THEN <<"row", id>> ELSE <<>>, k, {k})
        e3 == Bind(e2, "treatment_locations", <<"location", id>>, k, {k})
        e4 == Bind(e3, "treatment_duration", <<"duration", id>>, k, {k})
        e5 == Bind(e4, "lookback_window", <<w>>, k, {k})
        e6 == Bind(e5, "power_data",
                   <<e5["treatment_locations"].val, e5["lookback_window"].val,
                     e5["treatment_duration"].val>>, k, {k})
    IN  IF e2["market_row"].val = <<>> THEN [ok |-> FALSE, env |-> e2]
        ELSE [ok |-> TRUE, env |-> e6]

\* make_geoplot(r, p)
GeoplotArgs(c) == [code |-> PowerCode, inline |-> TRUE]

DeepDivePower(t) ==
    /\ pc[t] = "power_data"
    /\ LET res == PowerDataScript(genv, call[t].id, call[t].lookback, cid[t]) IN
        /\ genv' = res.env
        /\ gp' = [gp EXCEPT ![t] = IF res.ok THEN GeoplotArgs(call[t]) ELSE @]
        /\ Step(t, res.ok, "define", "R", <<"power_data">>, {}, {})
    /\ UNCHANGED <<call, cid, fun, tmpfile, img, devs, cur, disk, nfiles,
                   ncalls, devs0>>

\* a script that leaves test_locs as it finds it once it is bound
TestLocsScriptKept(env, ids, k) ==
    IF env["test_locs"].by # 0 THEN env
    ELSE Bind(env, "test_locs", MarketLocs(ids), k, {k})

\* r(f""" test_locs <- list({market_locs}) """)
TestLocsScript(env, ids, k) == Bind(env, "test_locs", MarketLocs(ids), k, {k})

BindTestLocs(t) ==
    /\ pc[t] = "test_locs"
    /\ genv' = TestLocsScript(genv, call[t].ids, cid[t])
    /\ Step(t, TRUE,
            IF call[t].fn = "make_market_plot_multicell" THEN "tmp" ELSE "Power",
            "R", <<"test_locs">>, {}, {})
    /\ UNCHANGED <<call, cid, gp, fun, tmpfile, img, devs, cur, disk, nfiles,
                   ncalls, devs0>>

\* r(f""" Power <- MultiCellPower(Markets, test_markets = test_locs, ...) """)
PowerScript(env, w, k) ==
    LET tl == env["test_locs"] IN
    IF tl.by = 0 \/ ~AllExist(tl.val)
    THEN [ok |-> FALSE, env |-> env, stale |-> StaleOf(env, {"test_locs"}, k)]
    ELSE [ok |-> TRUE, stale |-> StaleOf(env, {"test_locs"}, k),
          env |-> Bind(env, "Power", <<tl.val, w>>, k, tl.src \cup {k})]

MultiCellPower(t) ==
    /\ pc[t] = "Power"
    /\ LET res == PowerScript(genv, call[t].lookback, cid[t]) IN
        /\ genv' = res.env
        /\ Step(t, res.ok, "tmp", "R", <<"Power">>, {}, res.stale)
    /\ UNCHANGED <<call, cid, gp, fun, tmpfile, img, devs, cur, disk, nfiles,
                   ncalls, devs0>>

\* if inline == True: display(img)  else: img.show()
\* (display is the builtin the notebook provides)
ShowPath(inline) == IF inline = TRUE THEN "inline" ELSE "popup"

Show(t) ==
    /\ pc[t] = "show"
    /\ pc' = [pc EXCEPT ![t] = "done"]
    /\ h' = [h EXCEPT ![t].shown =
               Append(@, [path |-> ShowPath(gp[t].inline), img |-> img[t]]),
             ![t].late = @ \/ h[t].err # "none",
             ![t].reads = @ \cup
               (IF tmpfile[t] # 0
                THEN {ReadOf([devs |-> devs, cur |-> cur, disk |-> disk],
                             tmpfile[t])}
                ELSE {})]
    /\ UNCHANGED <<call, cid, gp, fun, tmpfile, img, genv, devs, cur, disk,
                   nfiles, ncalls, devs0, allOk>>

Do(t) ==
    \/ Define(t)
    \/ Lookup(t)
    \/ CallCreatePlot(t)
    \/ DeepDivePower(t)
    \/ BindTestLocs(t)
    \/ MultiCellPower(t)
    \/ MakeTmp(t)
    \/ Plot(t)
    \/ OpenImage(t)
    \/ Show(t)

\* the contract of the helpers: one call at a time, from one thread
Next == \E t \in SeqProcs : Begin(t) \/ Do(t)

Spec == Init /\ [][Next]_vars

\* two notebook threads, one call each, sharing the handle without a lock;
\* thread 1 names the thread whose call begins first
BeginPar(t) ==
    /\ cid[t] = 0
    /\ t = 1 \/ cid[1] # 0
    /\ \E c \in Calls : BeginCall(t, c)

NextPar == \E t \in Procs : BeginPar(t) \/ Do(t)

SpecPar == Init /\ [][NextPar]_vars

\* ================================================================ claims

Count(s, x) == Cardinality({i \in 1..Len(s) : s[i] = x})
Paths(t) == [i \in 1..Len(h[t].shown) |-> h[t].shown[i].path]
Ended(t) == pc[t] \in {"done", "failed"}
MultiFns == {"make_market_plot_multicell", "make_market_deep_dive_plot_multicell"}

\* C1: when a call has ended, successfully or with an error, no temporary
\* file created by that call is still on disk.
C1_NoTempFileLeft ==
    \A t \in Procs : Ended(t) =>
        \A f \in DOMAIN disk : disk[f].by # cid[t]

\* C2: a successful call with inline=True displays inline exactly once and
\* never pops up; with inline=False it pops up exactly once and never
\* displays inline.
C2_DisplayPathFollowsFlag ==
    \A t \in Procs : pc[t] = "done" =>
        /\ Count(Paths(t), ShowPath(call[t].inline)) = 1
        /\ Len(h[t].shown) = 1

\* C3: once the interpreter reported an error or the image could not be
\* decoded, the call has ended with that error: no later statement ran, no
\* script ran twice and nothing was displayed.
C3_ErrorEndsTheCall ==
    \A t \in Procs :
        /\ \A x \in {"define", "create_plot", "power_data", "test_locs",
                     "Power", "plot"} : Count(h[t].execs, x) <= 1
        /\ h[t].err # "none" =>
              /\ pc[t] = "failed"
              /\ ~h[t].late
              /\ h[t].shown = <<>>

C3_Witness ==
    \E t \in Procs :
        /\ h[t].err = "R"
        /\ call[t].fn = "make_market_plot_multicell"
        /\ h[t].execs = <<"test_locs", "plot">>

\* C4: a multicell call with N identifiers binds test_locs to N entries
\* cell_1..cell_N carrying the identifiers in order, issues one plot command,
\* and on success displays one image, drawn from that whole list.
ListDrawn(image) ==
    IF image.plot[1] = "Markets" THEN image.plot[2] ELSE image.plot[2][1]

C4_OneCombinedPlot ==
    \A t \in Procs : call[t].fn \in MultiFns =>
        LET tl == genv["test_locs"]
            ids == call[t].ids
        IN  /\ pc[t] # "test_locs" =>
                /\ Len(tl.val) = Len(ids)
                /\ \A j \in 1..Len(ids) :
                      tl.val[j] = [name |-> <<"cell_", j>>, value |-> ids[j]]
            /\ Count(h[t].execs, "plot") <= 1
            /\ pc[t] = "done" =>
                /\ Count(h[t].execs, "plot") = 1
                /\ Len(h[t].shown) = 1
                /\ ListDrawn(h[t].shown[1].img) = tl.val

C4_Witness ==
    \E t \in Procs :
        /\ pc[t] = "done"
        /\ call[t].fn = "make_market_deep_dive_plot_multicell"
        /\ Len(call[t].ids) = 2
        /\ call[t].ids[1] # call[t].ids[2]

\* C5: make_geoplot on a fragment that evaluates to a renderable plot (the
\* objects it names are bound) never fails, whatever calls came before on
\* the handle.
C5_GeoplotNeverFails ==
    \A t \in Procs :
        (/\ call[t].fn = "make_geoplot"
         /\ call[t].code.kind = "ok"
         /\ \A x \in call[t].code.reads : genv[x].by # 0)
            => pc[t] # "failed"

\* C6: a file is read back only after the device writing it was closed by
\* dev.off: no read finds a device open on the file, and every read finds
\* the complete image.
C6_ReadAfterDevOff ==
    \A t \in Procs : \A rd \in h[t].reads : ~rd.open /\ rd.st = "png"

C6_Witness ==
    \E t \in Procs :
        /\ pc[t] = "done"
        /\ call[t].fn = "make_market_plot"
        /\ \E rd \in h[t].reads : rd.file = tmpfile[t]
        /\ Len(devs) > devs0

\* the globals a caller's own plot_R_code names (none for the helpers that
\* write their script themselves)
NamedByCaller(t) ==
    IF call[t].fn = "make_geoplot" THEN call[t].code.reads ELSE {}

OwnImage(t) ==
    \A i \in 1..Len(h[t].shown) : h[t].shown[i].img.src \subseteq {cid[t]}

\* C7 as stated: one call at a time, no call reads an interpreter global
\* that an earlier call assigned, and the image it displays comes from its
\* own arguments.
C7_NoFlowBetweenCalls ==
    \A t \in Procs : h[t].stale = {} /\ OwnImage(t)

\* C7 as amended: one call at a time, the only globals a call reads that an
\* earlier call assigned are those the caller's own plot_R_code names; the
\* scripts the helpers write assign every global before reading it, and a
\* call that read no such global displays an image of its own arguments.
C7_FlowOnlyThroughCallerCode ==
    \A t \in Procs :
        /\ h[t].stale \subseteq NamedByCaller(t)
        /\ h[t].stale = {} => OwnImage(t)

C7_Witness ==
    \E t \in Procs :
        /\ pc[t] = "done"
        /\ cid[t] = 2
        /\ call[t].fn = "make_market_plot_multicell"
        /\ genv["Power"].by = 1

\* C8 as stated: a call displays an image rendered from another call's
\* script or parameters only if the two calls overlapped on the handle.
CrossTalk(t) == ~OwnImage(t)

C8_CrossTalkOnlyWhenInterleaved ==
    \A t \in Procs : CrossTalk(t) => h[t].overlap

\* C8 as amended: a call that did not overlap another one displays an image
\* rendered from another call's parameters only through a global that the
\* caller's own plot_R_code names; calls that overlap can display each
\* other's image (the witness).
C8_CrossTalkInterleavedOrNamed ==
    \A t \in Procs :
        (CrossTalk(t) /\ ~h[t].overlap) =>
            (h[t].stale # {} /\ h[t].stale \subseteq NamedByCaller(t))

C8_Witness ==
    \E t \in Procs :
        /\ pc[t] = "done"
        /\ CrossTalk(t)
        /\ h[t].overlap
        /\ NamedByCaller(t) = {}

\* C9: the file a call reads back was created and rendered by that call,
\* under a name no file left by an earlier call bears.
C9_OwnFreshFile ==
    \A t \in Procs :
        /\ \A rd \in h[t].reads : rd.by = cid[t] /\ rd.wr = cid[t]
        /\ tmpfile[t] \in DOMAIN disk => disk[tmpfile[t]].by = cid[t]

C9_Witness ==
    \E t \in Procs :
        /\ pc[t] = "done"
        /\ h[t].reads # {}
        /\ \E f \in DOMAIN disk : disk[f].by # cid[t]

\* C10: when a call displays its image no device it opened is still open,
\* and after successful calls only, as many devices are open as before the
\* first call.
C10_DevicesClosed ==
    /\ \A t \in Procs : pc[t] \in {"show", "done"} =>
          \A i \in 1..Len(devs) : devs[i].by # cid[t]
    /\ (allOk /\ \A t \in Procs : ~Active(t)) => Len(devs) = devs0

C10_Witness ==
    \E t \in Procs : pc[t] = "done" /\ allOk /\ cid[t] = 2 /\ devs0 > 0

====
